---- MODULE Spec2Model ----
(***************************************************************************)
(* TwangyBot (src/main.py): the module's top-level statements and its two  *)
(* coroutine handlers, on_message and on_ready.                            *)
(*                                                                         *)
(* Texts are sequences of one-character strings, so that str.lower() and   *)
(* str.startswith() are computed character by character.  An author is     *)
(* identified by the user's id; a mention token embeds that id.            *)
(*                                                                         *)
(* The handlers are modelled as the coroutine bodies of lines 12-24 and    *)
(* 27-29, called by an event source with a message (or with nothing, for   *)
(* ready) after the module's top-level statements have executed.  Whether  *)
(* the module's own start-up ever hands them to the library's dispatcher   *)
(* is the state of pc and registered, stepped by TopLevel.                 *)
(***************************************************************************)
EXTENDS Naturals, Sequences, FiniteSets

VARIABLES
    pc,             \* top-level statement of main.py about to run, or how it ended
    globals,        \* names bound in the module namespace
    registered,     \* handlers handed to the messaging client by @<client>.event
    witConstructed, \* number of Wit(...) constructions
    witCalls,       \* number of method calls made on wit_client
    tasks,          \* handler invocations of on_message, in order of invocation
    sent,           \* send_message calls made, in order of the call
    acked,          \* indices into sent of the sends that completed, in completion order
    echoed,         \* indices into sent whose delivered reply came back as a message event
    readyFired,     \* number of invocations of on_ready
    stdout          \* lines printed

vars == <<pc, globals, registered, witConstructed, witCalls, tasks, sent, acked,
          echoed, readyFired, stdout>>

\* Bound of the model: handler invocations (message and ready events together).
MaxEvents == 2

----------------------------------------------------------------------------
\* Characters and str.lower()

UpperAlpha == <<"A","B","C","D","E","F","G","H","I","J","K","L","M",
                "N","O","P","Q","R","S","T","U","V","W","X","Y","Z">>
LowerAlpha == <<"a","b","c","d","e","f","g","h","i","j","k","l","m",
                "n","o","p","q","r","s","t","u","v","w","x","y","z">>

LowerChar(c) ==
    IF \E k \in 1..Len(UpperAlpha) : UpperAlpha[k] = c
    THEN LowerAlpha[CHOOSE k \in 1..Len(UpperAlpha) : UpperAlpha[k] = c]
    ELSE c

\* A plausible slip: no case normalisation at all.
lower_identity(s) == s

\* message.content.lower()
lower(s) == [i \in 1..Len(s) |-> LowerChar(s[i])]

\* A plausible slip: substring search ('twangy' in content) for the prefix test.
startswith_anywhere(s, prefix) ==
    \E k \in 0..Len(s) :
        /\ k + Len(prefix) <= Len(s)
        /\ SubSeq(s, k + 1, k + Len(prefix)) = prefix

\* content.startswith(prefix)
startswith(s, prefix) ==
    /\ Len(s) >= Len(prefix)
    /\ SubSeq(s, 1, Len(prefix)) = prefix

\* the literal 'twangy' of line 20
Trigger == <<"t","w","a","n","g","y">>

\* the literal text of the format string of line 23, before the field
HelloPrefix == <<"H","e","l","l","o"," ">>

----------------------------------------------------------------------------
\* The platform's objects the handlers read

\* discord_client.user: the identity the client is logged in as
user == "bot"
UserName(u) == IF u = "bot" THEN "TwangyBot" ELSE u
UserId(u) == IF u = "bot" THEN "id:bot" ELSE u

Authors == {user, "alice", "bob"}
Channels == {"general", "random"}

\* author.mention: the platform's token referencing the user
mention(author) == <<"<", "@", author, ">">>

Contents == {
    << >>,
    <<"t","w","a","n","g">>,
    <<"T","w","a","n","g">>,
    <<"t","w","a","n","g","y">>,
    <<"T","w","a","n","g","y">>,
    <<"T","W","A","N","G","Y"," ","h","i">>,
    <<"x","T","w","a","n","g","y">> }

\* message events the platform can deliver from the network
Messages == [author : Authors, content : Contents, channel : Channels]

----------------------------------------------------------------------------
\* on_message (lines 12-24): the send_message calls one invocation makes

\* The format string of line 23 applied to the message.
Format(message) == HelloPrefix \o mention(message.author)

\* A plausible slip: the reply names the author without the mention token.
on_message_plain_name(message) ==
    IF message.author = user THEN << >>
    ELSE IF ~startswith(lower(message.content), Trigger) THEN << >>
    ELSE <<[channel |-> message.channel, text |-> HelloPrefix \o <<message.author>>]>>

\* A plausible slip: the own-message check is missing.
on_message_no_author_check(message) ==
    IF ~startswith(lower(message.content), Trigger) THEN << >>
    ELSE <<[channel |-> message.channel, text |-> Format(message)]>>

\* A plausible slip: the author is compared with the user's name, never equal.
on_message_author_vs_name(message) ==
    IF message.author = UserName(user) THEN << >>
    ELSE IF ~startswith(lower(message.content), Trigger) THEN << >>
    ELSE <<[channel |-> message.channel, text |-> Format(message)]>>

\* A plausible slip: per-author memory, only an author's first message is answered.
on_message_greets_once(message) ==
    IF message.author = user THEN << >>
    ELSE IF ~startswith(lower(message.content), Trigger) THEN << >>
    ELSE IF \E j \in 1..Len(sent) : tasks[sent[j].task].message.author = message.author
         THEN << >>
    ELSE <<[channel |-> message.channel, text |-> Format(message)]>>

on_message(message) ==
    IF message.author = user THEN << >>
    ELSE IF ~startswith(lower(message.content), Trigger) THEN << >>
    ELSE <<[channel |-> message.channel, text |-> Format(message)]>>

----------------------------------------------------------------------------
\* on_ready (lines 27-29): the lines one invocation prints

\* A plausible slip: the two prints in the other order.
on_ready_id_first ==
    << <<"Id: ", UserId(user)>>, <<"Username: ", UserName(user)>> >>

on_ready ==
    << <<"Username: ", UserName(user)>>, <<"Id: ", UserId(user)>> >>

----------------------------------------------------------------------------
Init ==
    /\ pc = "L7"
    /\ globals = {"discord", "Wit", "DISCORD_TOKEN", "WIT_TOKEN"}
    /\ registered = {}
    /\ witConstructed = 0
    /\ witCalls = 0
    /\ tasks = << >>
    /\ sent = << >>
    /\ acked = << >>
    /\ echoed = {}
    /\ readyFired = 0
    /\ stdout = << >>

TopLevelEnded == pc \in {"run", "NameError"}

\* One top-level statement of main.py.  A decorator expression is evaluated in
\* the module namespace; a name that is not bound there raises NameError, which
\* ends the module's execution.
TopLevel ==
    /\ ~TopLevelEnded
    /\ CASE pc = "L7" ->
              /\ globals' = globals \cup {"discord_client"}
              /\ pc' = "L9"
              /\ UNCHANGED <<registered, witConstructed>>
         [] pc = "L9" ->
              /\ globals' = globals \cup {"wit_client"}
              /\ witConstructed' = witConstructed + 1
              /\ pc' = "L11"
              /\ UNCHANGED registered
         [] pc = "L11" ->
              IF "client" \in globals
              THEN /\ registered' = registered \cup {"on_message"}
                   /\ globals' = globals \cup {"on_message"}
                   /\ pc' = "L26"
                   /\ UNCHANGED witConstructed
              ELSE /\ pc' = "NameError"
                   /\ UNCHANGED <<globals, registered, witConstructed>>
         [] pc = "L26" ->
              IF "client" \in globals
              THEN /\ registered' = registered \cup {"on_ready"}
                   /\ globals' = globals \cup {"on_ready"}
                   /\ pc' = "L31"
                   /\ UNCHANGED witConstructed
              ELSE /\ pc' = "NameError"
                   /\ UNCHANGED <<globals, registered, witConstructed>>
         [] pc = "L31" ->
              /\ pc' = "run"
              /\ UNCHANGED <<globals, registered, witConstructed>>
    /\ UNCHANGED <<witCalls, tasks, sent, acked, echoed, readyFired, stdout>>

Events == Len(tasks) + readyFired

\* A plausible slip: the handler queries the NLU client with the message text.
Deliver_queries_wit(message) ==
    LET calls == on_message(message)
        id == Len(tasks) + 1
    IN  /\ TopLevelEnded
        /\ Events < MaxEvents
        /\ witCalls' = witCalls + 1
        /\ tasks' = Append(tasks, [message |-> message,
                                   state |-> IF calls = << >> THEN "returned" ELSE "await"])
        /\ sent' = sent \o [k \in 1..Len(calls) |->
                               [task |-> id, channel |-> calls[k].channel, text |-> calls[k].text]]
        /\ UNCHANGED <<pc, globals, registered, witConstructed, acked, readyFired, stdout>>

\* One invocation of on_message, run up to its return or to the await of line 24.
Deliver(message) ==
    LET calls == on_message(message)
        id == Len(tasks) + 1
    IN  /\ TopLevelEnded
        /\ Events < MaxEvents
        /\ tasks' = Append(tasks, [message |-> message,
                                   state |-> IF calls = << >> THEN "returned" ELSE "await"])
        /\ sent' = sent \o [k \in 1..Len(calls) |->
                               [task |-> id, channel |-> calls[k].channel, text |-> calls[k].text]]
        /\ UNCHANGED <<pc, globals, registered, witConstructed, witCalls, acked,
                       readyFired, stdout>>

\* A message event from the network.
OnMessageEvent ==
    \E m \in Messages : Deliver(m) /\ UNCHANGED echoed

\* A reply that was delivered comes back as a message event authored by the bot.
OnEchoEvent ==
    \E k \in 1..Len(acked) :
        /\ acked[k] \notin echoed
        /\ Deliver([author |-> user, content |-> sent[acked[k]].text,
                    channel |-> sent[acked[k]].channel])
        /\ echoed' = echoed \cup {acked[k]}

\* The index into sent of the call task i is awaiting (its latest call).
AwaitedSend(i) == CHOOSE j \in 1..Len(sent) :
                      sent[j].task = i /\ \A l \in (j+1)..Len(sent) : sent[l].task # i

\* The awaited send completes; nothing follows the await, the coroutine ends.
SendOk ==
    \E i \in 1..Len(tasks) :
        /\ tasks[i].state = "await"
        /\ tasks' = [tasks EXCEPT ![i].state = "done"]
        /\ acked' = Append(acked, AwaitedSend(i))
        /\ UNCHANGED <<pc, globals, registered, witConstructed, witCalls, sent, echoed,
                       readyFired, stdout>>

\* A plausible slip: the send is wrapped in a retry loop.
SendFails_retry(i) ==
    /\ tasks[i].state = "await"
    /\ IF Cardinality({j \in 1..Len(sent) : sent[j].task = i}) < 2
       THEN /\ sent' = Append(sent, sent[AwaitedSend(i)])
            /\ UNCHANGED tasks
       ELSE /\ tasks' = [tasks EXCEPT ![i].state = "fault"]
            /\ UNCHANGED sent
    /\ UNCHANGED <<pc, globals, registered, witConstructed, witCalls, acked, echoed,
                   readyFired, stdout>>

\* The awaited send raises; no handler encloses line 24, the exception leaves
\* on_message.
SendFails(i) ==
    /\ tasks[i].state = "await"
    /\ tasks' = [tasks EXCEPT ![i].state = "fault"]
    /\ UNCHANGED <<pc, globals, registered, witConstructed, witCalls, sent, acked, echoed,
                   readyFired, stdout>>

SendFailure == \E i \in 1..Len(tasks) : SendFails(i)

\* One invocation of on_ready.
OnReadyEvent ==
    /\ TopLevelEnded
    /\ Events < MaxEvents
    /\ readyFired' = readyFired + 1
    /\ stdout' = stdout \o on_ready
    /\ UNCHANGED <<pc, globals, registered, witConstructed, witCalls, tasks, sent, acked,
                   echoed>>

Next ==
    \/ TopLevel
    \/ OnMessageEvent
    \/ OnEchoEvent
    \/ SendOk
    \/ SendFailure
    \/ OnReadyEvent

Spec == Init /\ [][Next]_vars

----------------------------------------------------------------------------
\* Vocabulary of the properties

\* The send_message calls made by invocation i of on_message.
SendsOf(i) == SelectSeq(sent, LAMBDA s : s.task = i)

\* What invocation i did, without its position in the log.
Outcome(i) == [k \in 1..Len(SendsOf(i)) |->
                  [channel |-> SendsOf(i)[k].channel, text |-> SendsOf(i)[k].text]]

\* The text begins with the six letters t-w-a-n-g-y, each in either case.
StartsWithTwangyAnyCase(text) ==
    /\ Len(text) >= 6
    /\ text[1] \in {"t", "T"}
    /\ text[2] \in {"w", "W"}
    /\ text[3] \in {"a", "A"}
    /\ text[4] \in {"n", "N"}
    /\ text[5] \in {"g", "G"}
    /\ text[6] \in {"y", "Y"}

Qualifies(m) == m.author # user /\ StartsWithTwangyAnyCase(m.content)

\* Two characters that are the same letter, in the same or in different case.
SameLetter(c, d) ==
    c = d \/ \E k \in 1..Len(UpperAlpha) : {c, d} = {UpperAlpha[k], LowerAlpha[k]}

DifferOnlyInCase(s, t) ==
    /\ Len(s) = Len(t)
    /\ \A k \in 1..Len(s) : SameLetter(s[k], t[k])

Contains(line, token) == \E k \in 1..Len(line) : line[k] = token

TaskIds == 1..Len(tasks)

----------------------------------------------------------------------------
\* C1: an invocation of on_message on a message from someone other than the bot
\* whose text starts with "twangy" in any letter case makes exactly one send, to
\* the message's channel, with text "Hello " followed by the author's mention.
C1_ExactlyOneReply ==
    \A i \in TaskIds :
        LET m == tasks[i].message IN
        Qualifies(m) =>
            SendsOf(i) = <<[task |-> i, channel |-> m.channel,
                            text |-> <<"H","e","l","l","o"," ">> \o mention(m.author)]>>

C1_Witness ==
    \E i \in TaskIds :
        /\ Qualifies(tasks[i].message)
        /\ tasks[i].state = "done"
        /\ Len(SendsOf(i)) = 1

\* C2: an invocation of on_message on a message authored by the bot makes no
\* send and returns, whatever the text, a text starting with "twangy" included.
C2_NoReplyToOwnMessage ==
    \A i \in TaskIds :
        tasks[i].message.author = user =>
            SendsOf(i) = << >> /\ tasks[i].state = "returned"

C2_Witness ==
    \E i \in TaskIds :
        /\ tasks[i].message.author = user
        /\ StartsWithTwangyAnyCase(tasks[i].message.content)
        /\ tasks[i].state = "returned"

\* C3: an invocation of on_message on a message whose text does not start with
\* "twangy" in any letter case makes no send, whoever the author is.
C3_NoReplyWithoutTrigger ==
    \A i \in TaskIds :
        ~StartsWithTwangyAnyCase(tasks[i].message.content) => SendsOf(i) = << >>

C3_Witness ==
    \E i, j \in TaskIds :
        /\ tasks[i].message.author # user
        /\ tasks[i].message.content = <<"x","T","w","a","n","g","y">>
        /\ tasks[i].state = "returned"
        /\ tasks[j].message.author # user
        /\ tasks[j].message.content \in {<< >>, <<"t","w","a","n","g">>}
        /\ tasks[j].state = "returned"

\* C4: two messages of the same author (not the bot) on the same channel whose
\* texts differ only in letter case are both replied to or both ignored; and
\* "TWANGY hi" and "Twangy" are replied to.
C4_CaseInsensitive ==
    /\ \A i, j \in TaskIds :
          LET m == tasks[i].message
              n == tasks[j].message
          IN  (/\ m.author = n.author
               /\ m.author # user
               /\ m.channel = n.channel
               /\ DifferOnlyInCase(m.content, n.content))
              => ((SendsOf(i) # << >>) <=> (SendsOf(j) # << >>))
    /\ \A i \in TaskIds :
          (/\ tasks[i].message.author # user
           /\ tasks[i].message.content \in
                 {<<"T","W","A","N","G","Y"," ","h","i">>, <<"T","w","a","n","g","y">>})
          => Len(SendsOf(i)) = 1

C4_Witness ==
    \E i, j \in TaskIds :
        /\ tasks[i].message.author = tasks[j].message.author
        /\ tasks[i].message.author # user
        /\ tasks[i].message.channel = tasks[j].message.channel
        /\ tasks[i].message.content = <<"T","w","a","n","g","y">>
        /\ tasks[j].message.content = <<"t","w","a","n","g","y">>
        /\ SendsOf(i) # << >>
        /\ SendsOf(j) # << >>

\* C5: when the module's top-level execution has ended, it has ended in the
\* messaging client's run loop, with on_message and on_ready both registered.
C5_RunLoopReachedWithHandlers ==
    TopLevelEnded => (pc = "run" /\ registered = {"on_message", "on_ready"})

\* C6: every invocation of on_ready appends exactly two lines to standard
\* output, the first containing the bot's name and the second the bot's id, and
\* makes no send.
C6_ReadyPrintsNameThenId ==
    [][ readyFired' = readyFired + 1 =>
          /\ Len(stdout') = Len(stdout) + 2
          /\ SubSeq(stdout', 1, Len(stdout)) = stdout
          /\ Contains(stdout'[Len(stdout) + 1], UserName(user))
          /\ Contains(stdout'[Len(stdout) + 2], UserId(user))
          /\ sent' = sent
      ]_vars

C6_Witness == readyFired = 2 /\ Len(stdout) = 4

\* C7: an invocation of on_message never makes more than one send attempt, and
\* once its send has failed the invocation stays faulted, with its one attempt.
C7_NoRetry ==
    [][ /\ \A i \in 1..Len(tasks') : Len(SendsOf(i)') <= 1
        /\ \A i \in TaskIds :
              tasks[i].state = "fault" =>
                  /\ tasks'[i].state = "fault"
                  /\ SendsOf(i)' = SendsOf(i)
                  /\ Len(SendsOf(i)) = 1
      ]_vars

C7_Witness ==
    \E i \in TaskIds :
        /\ tasks[i].state = "fault"
        /\ Len(SendsOf(i)) = 1
        /\ Len(tasks) > i

\* C8: two invocations on equal messages have equal outcomes, whatever came
\* before them; and however the suspended invocations resume, every send in
\* the log is the one reply of a qualifying message, to that message's channel
\* and mentioning that message's author, and completes at most once.
C8_MemorylessAndInterleavingSafe ==
    /\ \A i, j \in TaskIds :
          tasks[i].message = tasks[j].message => Outcome(i) = Outcome(j)
    /\ \A i \in TaskIds :
          Len(SendsOf(i)) = (IF Qualifies(tasks[i].message) THEN 1 ELSE 0)
    /\ \A k \in 1..Len(sent) :
          LET m == tasks[sent[k].task].message IN
          /\ sent[k].channel = m.channel
          /\ sent[k].text = <<"H","e","l","l","o"," ">> \o mention(m.author)
    /\ \A k, l \in 1..Len(acked) : acked[k] = acked[l] => k = l
    /\ \A k \in 1..Len(acked) : tasks[sent[acked[k]].task].state = "done"

C8_Witness ==
    /\ Len(tasks) >= 2
    /\ tasks[1].message.author # tasks[2].message.author
    /\ tasks[1].message.channel # tasks[2].message.channel
    /\ Len(sent) = 2
    /\ acked = <<2, 1>>

\* C9: the NLU client is constructed at most once, exactly once from line 11
\* on, and no call is ever made on it.
C9_NluClientNeverCalled ==
    /\ witCalls = 0
    /\ witConstructed <= 1
    /\ (pc \notin {"L7", "L9"} => witConstructed = 1)

C9_Witness ==
    /\ witConstructed = 1
    /\ readyFired >= 1
    /\ \E i \in TaskIds : tasks[i].state = "done"

\* C10: with delivered replies coming back as messages authored by the bot, the
\* number of sends never exceeds the number of received messages authored by
\* someone other than the bot.
C10_NoReplyLoop ==
    Len(sent) <= Cardinality({i \in TaskIds : tasks[i].message.author # user})

C10_Witness ==
    /\ echoed # {}
    /\ Len(sent) >= 1
    /\ \E i \in TaskIds :
          /\ tasks[i].message.author = user
          /\ tasks[i].message.content \notin Contents

====
